---- MODULE Spec2Model ----
(***************************************************************************)
(* Model of image_downloader.py: the main thread (argument handling,       *)
(* load_download_history, fetch_images_from_keyword, process_search_file,  *)
(* backup_history and its SIGINT handler) and the download worker threads, *)
(* one atomic step per access to shared state; the same threads counted    *)
(* instead of told apart, for the throttle; and cleanup_previous_search of *)
(* flask_app.py over the files of the working directory.                   *)
(***************************************************************************)
EXTENDS Integers, Sequences, FiniteSets, TLC

\* ------------------------------------------------------------- bounds
MaxWorkers == 2      \* download threads the session starts in one process run
MaxPageLen == 2      \* links on one result page
MaxLimit == 1        \* largest --limit
MaxThreads == 2      \* largest --threads
NumKeywords == 2     \* keywords in the --search-file
MaxStarted == 12     \* download threads started when threads are only counted
BatchUrls == 3       \* candidate URLs the pages of a --search-file run draw on

\* ------------------------------------------------- program constants
MaxRuns == 2         \* runs of the program in one output directory
MAX_CONCURRENT_DOWNLOADS == 10
DEFAULT_THREADS == 20

\* ---------------------------------------------------- the environment
\* Candidate URLs 1..7, whatever the pattern of line 188 cuts out of the
\* page; 0 stands for the empty string (last_link = '').
Urls == 1..7
\* urllib.parse.urlsplit raises ValueError on URL 7 (an opening bracket in
\* the host with no closing one, "Invalid IPv6 URL").
Malformed(u) == u = 7
\* Bytes served for each URL: URLs 1 and 2 serve the same bytes, URL 4 serves
\* bytes that are no image.
Content(u) ==
    CASE u = 1 -> 1 [] u = 2 -> 1 [] u = 3 -> 2 [] u = 5 -> 3 [] u = 6 -> 4
      [] OTHER -> 0
\* imghdr.what on the bytes: 0 is not an image.
ImageFormat(c) ==
    CASE c = 1 -> "jpeg" [] c = 2 -> "png" [] c = 3 -> "gif" [] c = 4 -> "jpeg"
      [] OTHER -> "none"
\* hashlib.md5: injective on the byte strings of the model.
Md5(c) == <<"md5", c>>
Workers == 1..MaxWorkers
NoHistory == [st |-> "missing", tried |-> << >>, md5s |-> << >>]
NoDisk == [n \in {} |-> 0]

VARIABLES
    tried_urls, image_md5s, in_progress, image_counter, successful_downloads,
    pool_sema, img_sema,
    disk, history,
    mode, limit, threads, mpc, sig, kw, page, idx, last_link, nspawned,
    pc, url, wdir, fidx, tmp,
    fetchCount, writes, loaded, flushes, skipped, ended, ckpt, repeated, failed,
    waiting, leaving, doomed, dead,
    saved, run,
    fs, fs0, cpc, cache_buster

shared == <<tried_urls, image_md5s, in_progress, image_counter, successful_downloads>>
semas == <<pool_sema, img_sema>>
files == <<disk, history>>
mainv == <<mode, limit, threads, mpc, sig, kw, page, idx, last_link, nspawned>>
locals == <<url, wdir, fidx, tmp>>
\* History variables, read by no action: the fetches attempted per URL, the
\* files written, the list load_download_history loaded, the calls of
\* backup_history, the URLs skipped at line 60, why fetch_images_from_keyword
\* returned, and the number of files written when the signal handler's
\* backup_history had written the whole ledger (-1 before that), and whether
\* the last page answered for the keyword ended in the link the page before it
\* ended in, and whether a page request of the keyword raised.
ghost == <<fetchCount, writes, loaded, flushes, skipped>>
marks == <<ended, ckpt, repeated, failed>>
\* Download threads counted instead of told apart: those started and not
\* yet past pool_sema.acquire(), those past pool_sema.release() and not
\* yet past in_progress -= 1, those started with a URL urlsplit rejects and
\* not yet past pool_sema.acquire(), and those that ended at line 68.
counts == <<waiting, leaving, doomed, dead>>
\* flask_app.py: the files under the working directory, the files there when
\* cleanup_previous_search was called, the position of cleanup_previous_search
\* and session['cache_buster'].
cleanv == <<fs, fs0, cpc, cache_buster>>
\* What was in memory when the last call of backup_history wrote the whole
\* ledger with no download thread running (st = "quiet" while such a call
\* is under way, "none" otherwise), and the number of this run of the
\* program in the output directory.
runs == <<saved, run>>
side == <<counts, cleanv, runs>>
vars == <<shared, semas, files, mainv, pc, locals, ghost, marks, side>>

\* ------------------------------------------------------------ helpers
\* File extension chosen from the detected format (lines 99-104).
ExtOf(fmt) == IF fmt = "png" THEN ".png" ELSE ".jpg"
\* The name a worker writes: f"Image{image_counter + 1}{file_extension}".
FileName(w) == <<fidx[w], ExtOf(ImageFormat(Content(url[w])))>>
Path(w) == <<wdir[w], FileName(w)>>
InSeq(x, s) == \E i \in 1..Len(s) : s[i] = x
Put(f, k, v) == [x \in DOMAIN f \cup {k} |-> IF x = k THEN v ELSE f[x]]
\* The directory fetch_images_from_keyword is given: the output directory
\* itself for --search-string, a sub-directory per keyword for --search-file.
CurDir == IF mode = "single" THEN 0 ELSE kw

\* What an earlier run of the program may have left in the output directory.
Fresh == [disk |-> NoDisk, history |-> NoHistory]
Resumed ==
    [disk |-> [n \in {<<0, <<1, ".jpg">>>>} |-> 1],
     history |-> [st |-> "full", tried |-> <<1>>,
                  md5s |-> [m \in {Md5(1)} |-> <<1, ".jpg">>]]]
CutShort ==
    [disk |-> [n \in {<<0, <<1, ".jpg">>>>} |-> 1],
     history |-> [st |-> "partial", tried |-> <<1>>, md5s |-> << >>]]
PriorStates == {Fresh, Resumed, CutShort}

\* The module globals, the command line and the main thread before
\* load_download_history; the semaphores are made from --threads.
InitDownloader ==
    /\ tried_urls = << >>
    /\ image_md5s = << >>
    /\ in_progress = 0
    /\ image_counter = 0
    /\ successful_downloads = 0
    /\ img_sema = 1
    /\ \E p \in PriorStates : disk = p.disk /\ history = p.history
    /\ mode \in {"single", "batch"}
    /\ limit \in 1..MaxLimit
    /\ mpc = "load"
    /\ sig = FALSE
    /\ kw = 0
    /\ page = << >>
    /\ idx = 1
    /\ last_link = 0
    /\ nspawned = 0
    /\ pc = [w \in Workers |-> "idle"]
    /\ url = [w \in Workers |-> 0]
    /\ wdir = [w \in Workers |-> 0]
    /\ fidx = [w \in Workers |-> 0]
    /\ tmp = [w \in Workers |-> 0]
    /\ fetchCount = [u \in Urls |-> 0]
    /\ writes = << >>
    /\ loaded = << >>
    /\ flushes = 0
    /\ skipped = {}
    /\ ended = "no"
    /\ ckpt = -1
    /\ repeated = FALSE
    /\ failed = FALSE
    /\ waiting = 0
    /\ leaving = 0
    /\ doomed = 0
    /\ dead = 0
    /\ saved = [st |-> "none", tried |-> << >>, md5s |-> << >>]
    /\ run = 1

\* flask_app.py does not run.
CleanupOff ==
    /\ fs = << >>
    /\ fs0 = << >>
    /\ cpc = "off"
    /\ cache_buster = 1

Init ==
    /\ InitDownloader
    /\ threads \in 1..MaxThreads
    /\ pool_sema = threads
    /\ CleanupOff

\* ------------------------------------------------------ main thread
\* load_download_history with the second pickle.load of line 242 left out:
\* the list of URLs is read back, the fingerprints are not.  C33 is expected
\* to fail under this variant.
LoadHistoryUrlsOnly ==
    /\ UNCHANGED side
    /\ UNCHANGED marks
    /\ mpc = "load"
    /\ CASE history.st = "missing" ->
              /\ tried_urls' = << >>
              /\ UNCHANGED image_md5s
              /\ mpc' = "start"
         [] history.st = "full" ->
              /\ tried_urls' = history.tried
              /\ UNCHANGED image_md5s
              /\ mpc' = "start"
         [] history.st = "partial" ->
              /\ tried_urls' = history.tried
              /\ UNCHANGED image_md5s
              /\ mpc' = "crashed"
         [] OTHER ->
              /\ UNCHANGED <<tried_urls, image_md5s>>
              /\ mpc' = "crashed"
    /\ loaded' = IF history.st \in {"full", "partial"} THEN history.tried ELSE << >>
    /\ UNCHANGED <<in_progress, image_counter, successful_downloads, semas, files,
                   mode, limit, threads, sig, kw, page, idx, last_link, nspawned,
                   pc, locals, fetchCount, writes, flushes, skipped>>

\* load_download_history: a missing file starts fresh; an incomplete file
\* makes pickle.load raise EOFError, which the handler does not catch.
LoadHistory ==
    /\ UNCHANGED side
    /\ UNCHANGED marks
    /\ mpc = "load"
    /\ CASE history.st = "missing" ->
              /\ tried_urls' = << >>
              /\ UNCHANGED image_md5s
              /\ mpc' = "start"
         [] history.st = "full" ->
              /\ tried_urls' = history.tried
              /\ image_md5s' = history.md5s
              /\ mpc' = "start"
         [] history.st = "partial" ->
              /\ tried_urls' = history.tried
              /\ UNCHANGED image_md5s
              /\ mpc' = "crashed"
         [] OTHER ->
              /\ UNCHANGED <<tried_urls, image_md5s>>
              /\ mpc' = "crashed"
    /\ loaded' = IF history.st \in {"full", "partial"} THEN history.tried ELSE << >>
    /\ UNCHANGED <<in_progress, image_counter, successful_downloads, semas, files,
                   mode, limit, threads, sig, kw, page, idx, last_link, nspawned,
                   pc, locals, fetchCount, writes, flushes, skipped>>

\* __main__, lines 323-328: one keyword, or the keywords of the file.
Start ==
    /\ UNCHANGED side
    /\ UNCHANGED marks
    /\ mpc = "start"
    /\ IF mode = "single"
       THEN mpc' = "loop" /\ kw' = 1
       ELSE mpc' = "next_kw" /\ kw' = 0
    /\ UNCHANGED <<shared, semas, files, mode, limit, threads, sig, page, idx, last_link,
                   nspawned, pc, locals, ghost>>

\* process_search_file, lines 258-265: the next keyword and the first of the
\* two resets, or the end of the file.
NextKeyword ==
    /\ UNCHANGED side
    /\ UNCHANGED <<ended, ckpt>>
    /\ repeated' = FALSE
    /\ failed' = FALSE
    /\ mpc = "next_kw"
    /\ IF kw < NumKeywords
       THEN mpc' = "reset_sd" /\ kw' = kw + 1 /\ image_counter' = 0
       ELSE mpc' = "done" /\ UNCHANGED <<kw, image_counter>>
    /\ UNCHANGED <<tried_urls, image_md5s, in_progress, successful_downloads, semas,
                   files, mode, limit, threads, sig, page, idx, last_link, nspawned,
                   pc, locals, ghost>>

\* line 266, and the call of fetch_images_from_keyword (lines 170-171).
ResetSuccessful ==
    /\ UNCHANGED side
    /\ UNCHANGED marks
    /\ mpc = "reset_sd"
    /\ successful_downloads' = 0
    /\ mpc' = "loop"
    /\ UNCHANGED <<tried_urls, image_md5s, in_progress, image_counter, semas,
                   files, mode, limit, threads, sig, kw, page, idx, last_link, nspawned,
                   pc, locals, ghost>>

\* Where fetch_images_from_keyword returns to.
AfterKeyword == IF mode = "single" THEN "done" ELSE "backup"

\* The pages the backend may answer with: 1..MaxPageLen links, and no more
\* links than download threads are left to start (unless the limit is
\* reached, when the for loop starts none).  The pages of a --search-file
\* run draw on the first BatchUrls candidates only.
PageUrls == IF mode = "batch" THEN 1..BatchUrls ELSE Urls
Pages ==
    {p \in UNION {[1..n -> PageUrls] : n \in 1..MaxPageLen} :
        \/ Len(p) <= MaxWorkers - nspawned
        \/ successful_downloads >= limit}

\* The while loop with the test of lines 194-195 left out: a page that ends
\* in last_link is handed to the for loop.  C12 is expected to fail under
\* this variant.
PageRequestKeepsGoing ==
    /\ UNCHANGED side
    /\ mpc = "loop"
    /\ IF in_progress > MAX_CONCURRENT_DOWNLOADS
       THEN UNCHANGED <<mpc, page, idx, last_link, marks>>
       ELSE \/ /\ mpc' = AfterKeyword
               /\ last_link' = 0
               /\ ended' = "page"
               /\ failed' = TRUE
               /\ UNCHANGED <<page, idx, ckpt, repeated>>
            \/ /\ mpc' = AfterKeyword
               /\ last_link' = 0
               /\ ended' = "page"
               /\ UNCHANGED <<page, idx, ckpt, repeated, failed>>
            \/ \E p \in Pages :
                 /\ repeated' = (p[Len(p)] = last_link)
                 /\ mpc' = "spawn"
                 /\ page' = p
                 /\ idx' = 1
                 /\ UNCHANGED <<last_link, ended, ckpt, failed>>
    /\ UNCHANGED <<shared, semas, files, mode, limit, threads, sig, kw, nspawned,
                   pc, locals, ghost>>

\* The while loop with the return of lines 208-213 left out: after a page
\* request that raised the loop goes round and asks for the page again.
\* C27 is expected to fail under this variant.
PageRequestRetries ==
    /\ UNCHANGED side
    /\ mpc = "loop"
    /\ IF in_progress > MAX_CONCURRENT_DOWNLOADS
       THEN UNCHANGED <<mpc, page, idx, last_link, marks>>
       ELSE \/ /\ failed' = TRUE
               /\ UNCHANGED <<mpc, last_link, ended, page, idx, ckpt, repeated>>
            \/ /\ mpc' = AfterKeyword          \* no links, 190-192
               /\ last_link' = 0
               /\ ended' = "page"
               /\ UNCHANGED <<page, idx, ckpt, repeated, failed>>
            \/ \E p \in Pages :
                 /\ repeated' = (p[Len(p)] = last_link)
                 /\ UNCHANGED failed
                 /\ IF p[Len(p)] = last_link
                    THEN /\ mpc' = AfterKeyword
                         /\ last_link' = 0
                         /\ ended' = "page"
                         /\ UNCHANGED <<page, idx, ckpt>>
                    ELSE /\ mpc' = "spawn"
                         /\ page' = p
                         /\ idx' = 1
                         /\ UNCHANGED <<last_link, ended, ckpt>>
    /\ UNCHANGED <<shared, semas, files, mode, limit, threads, sig, kw, nspawned,
                   pc, locals, ghost>>

\* One turn of the while loop, lines 173-195 and 208-213: the throttle
\* test, the page request, which may raise, and the two end-of-results tests.
PageRequest ==
    /\ UNCHANGED side
    /\ mpc = "loop"
    /\ IF in_progress > MAX_CONCURRENT_DOWNLOADS
       THEN UNCHANGED <<mpc, page, idx, last_link, marks>>
       ELSE \/ /\ mpc' = AfterKeyword          \* the request raises, 208-213
               /\ last_link' = 0
               /\ ended' = "page"
               /\ failed' = TRUE
               /\ UNCHANGED <<page, idx, ckpt, repeated>>
            \/ /\ mpc' = AfterKeyword          \* no links, 190-192
               /\ last_link' = 0
               /\ ended' = "page"
               /\ UNCHANGED <<page, idx, ckpt, repeated, failed>>
            \/ \E p \in Pages :
                 /\ repeated' = (p[Len(p)] = last_link)
                 /\ UNCHANGED failed
                 /\ IF p[Len(p)] = last_link
                    THEN /\ mpc' = AfterKeyword
                         /\ last_link' = 0
                         /\ ended' = "page"
                         /\ UNCHANGED <<page, idx, ckpt>>
                    ELSE /\ mpc' = "spawn"
                         /\ page' = p
                         /\ idx' = 1
                         /\ UNCHANGED <<last_link, ended, ckpt>>
    /\ UNCHANGED <<shared, semas, files, mode, limit, threads, sig, kw, nspawned,
                   pc, locals, ghost>>

\* One turn of the for loop, lines 197-206.
SpawnLink ==
    /\ UNCHANGED side
    /\ mpc = "spawn"
    /\ IF idx > Len(page)
       THEN /\ last_link' = page[Len(page)]
            /\ mpc' = "loop"
            /\ page' = << >>
            /\ idx' = 1
            /\ UNCHANGED <<nspawned, pc, url, wdir, marks>>
       ELSE IF successful_downloads >= limit
            THEN /\ mpc' = AfterKeyword
                 /\ last_link' = 0
                 /\ page' = << >>
                 /\ idx' = 1
                 /\ ended' = "limit"
                 /\ UNCHANGED <<nspawned, pc, url, wdir, ckpt, repeated, failed>>
            ELSE /\ nspawned' = nspawned + 1
                 /\ pc' = [pc EXCEPT ![nspawned + 1] = "start"]
                 /\ url' = [url EXCEPT ![nspawned + 1] = page[idx]]
                 /\ wdir' = [wdir EXCEPT ![nspawned + 1] = CurDir]
                 /\ idx' = idx + 1
                 /\ UNCHANGED <<mpc, last_link, page, marks>>
    /\ UNCHANGED <<shared, semas, files, mode, limit, threads, sig, kw, fidx, tmp, ghost>>

\* No download thread is running.
AllDone == \A w \in Workers : pc[w] \in {"idle", "done"}

\* Where backup_history goes when it is over (lines 232-233): exit(0) for the
\* signal handler, back to process_search_file otherwise.
AfterBackup == IF sig THEN "exited" ELSE "next_kw"
ExitMark == IF sig THEN Len(writes) ELSE ckpt

\* backup_history, lines 223-224: open(..., 'wb') raises, or truncates the
\* file; then pickle.dump(tried_urls, ...) raises or writes the list.
BackupUrls ==
    /\ UNCHANGED <<counts, cleanv, run>>
    /\ mpc = "backup"
    /\ flushes' = flushes + 1
    /\ \/ /\ mpc' = AfterBackup
          /\ UNCHANGED history
          /\ saved' = [st |-> "none", tried |-> << >>, md5s |-> << >>]
       \/ /\ history' = [st |-> "empty", tried |-> << >>, md5s |-> << >>]
          /\ mpc' = AfterBackup
          /\ saved' = [st |-> "none", tried |-> << >>, md5s |-> << >>]
       \/ /\ history' = [st |-> "partial", tried |-> tried_urls, md5s |-> << >>]
          /\ mpc' = "backup_md5s"
          /\ saved' = [st |-> IF AllDone THEN "quiet" ELSE "none",
                        tried |-> << >>, md5s |-> << >>]
    /\ UNCHANGED marks
    /\ UNCHANGED <<shared, semas, disk, mode, limit, threads, sig, kw, page, idx, last_link,
                   nspawned, pc, locals, fetchCount, writes, loaded, skipped>>

\* lines 226-233: the copy of image_md5s is dumped and the file closed, or
\* the dump raises.
BackupMd5s ==
    /\ UNCHANGED <<counts, cleanv, run>>
    /\ mpc = "backup_md5s"
    /\ \/ /\ UNCHANGED <<history, ckpt>>
          /\ saved' = [st |-> "none", tried |-> << >>, md5s |-> << >>]
       \/ /\ history' = [history EXCEPT !.st = "full", !.md5s = image_md5s]
          /\ ckpt' = ExitMark
          /\ saved' = IF saved.st = "quiet"
                       THEN [st |-> "whole", tried |-> tried_urls,
                             md5s |-> image_md5s]
                       ELSE [st |-> "none", tried |-> << >>, md5s |-> << >>]
    /\ mpc' = AfterBackup
    /\ UNCHANGED <<ended, repeated, failed>>
    /\ UNCHANGED <<shared, semas, disk, mode, limit, threads, sig, kw, page, idx, last_link,
                   nspawned, pc, locals, ghost>>

\* SIGINT: the handler installed at line 309 runs backup_history(signum,
\* frame) on the main thread, wherever that thread is.
Sigint ==
    /\ UNCHANGED side
    /\ mpc \in {"load", "start", "next_kw", "reset_sd", "loop", "spawn"}
    /\ sig' = TRUE
    /\ mpc' = "backup"
    /\ ended' = "sigint"
    /\ UNCHANGED <<ckpt, repeated, failed>>
    /\ page' = << >>
    /\ idx' = 1
    /\ last_link' = 0
    /\ UNCHANGED <<shared, semas, files, mode, limit, threads, kw, nspawned, pc, locals, ghost>>

\* ---------------------------------------------------- download worker
\* The finally block, lines 151-154: the permits go back.  The worker's
\* locals are dead from here on.
Finish(w) ==
    /\ pool_sema' = pool_sema + 1
    /\ pc' = [pc EXCEPT ![w] = "dec"]
    /\ url' = [url EXCEPT ![w] = 0]
    /\ wdir' = [wdir EXCEPT ![w] = 0]
    /\ fidx' = [fidx EXCEPT ![w] = 0]
    /\ UNCHANGED tmp

\* download with the test of lines 60-62 left out: every URL goes on to the
\* fetch.  C4 is expected to fail under this variant.
CheckTriedNeverSkips(w) ==
    /\ UNCHANGED side
    /\ UNCHANGED marks
    /\ pc[w] = "start"
    /\ pc' = [pc EXCEPT ![w] = "acquire"]
    /\ UNCHANGED <<shared, semas, files, mainv, locals, ghost>>

\* lines 60-62: a URL already in tried_urls is skipped.
CheckTried(w) ==
    /\ UNCHANGED side
    /\ UNCHANGED marks
    /\ pc[w] = "start"
    /\ IF InSeq(url[w], tried_urls)
       THEN /\ pc' = [pc EXCEPT ![w] = "done"]
            /\ skipped' = skipped \cup {url[w]}
            /\ url' = [url EXCEPT ![w] = 0]
            /\ wdir' = [wdir EXCEPT ![w] = 0]
       ELSE /\ pc' = [pc EXCEPT ![w] = "acquire"]
            /\ UNCHANGED <<skipped, url, wdir>>
    /\ UNCHANGED <<shared, semas, files, mainv, fidx, tmp,
                   fetchCount, writes, loaded, flushes>>

\* download with pool_sema.acquire() of line 63 not waiting for a free
\* permit.  C22 is expected to fail under this variant.
AcquirePoolNoWait(w) ==
    /\ UNCHANGED side
    /\ UNCHANGED marks
    /\ pc[w] = "acquire"
    /\ pool_sema' = pool_sema - 1
    /\ in_progress' = in_progress + 1
    /\ IF Malformed(url[w])
       THEN /\ pc' = [pc EXCEPT ![w] = "done"]
            /\ url' = [url EXCEPT ![w] = 0]
            /\ wdir' = [wdir EXCEPT ![w] = 0]
            /\ UNCHANGED <<fidx, tmp>>
       ELSE /\ pc' = [pc EXCEPT ![w] = "fetch"]
            /\ UNCHANGED locals
    /\ UNCHANGED <<tried_urls, image_md5s, image_counter, successful_downloads,
                   img_sema, files, mainv, ghost>>

\* lines 63-86: pool_sema.acquire() blocks while no permit is free; then
\* in_progress += 1, taken as one step (no specification of this module
\* branches on in_progress below MAX_CONCURRENT_DOWNLOADS), and the URL is
\* split, line 68.  These lines stand before the try of line 88: when
\* urlsplit raises, the thread ends there and lines 151-155 are not run.
AcquirePool(w) ==
    /\ UNCHANGED side
    /\ UNCHANGED marks
    /\ pc[w] = "acquire"
    /\ pool_sema > 0
    /\ pool_sema' = pool_sema - 1
    /\ in_progress' = in_progress + 1
    /\ IF Malformed(url[w])
       THEN /\ pc' = [pc EXCEPT ![w] = "done"]
            /\ url' = [url EXCEPT ![w] = 0]
            /\ wdir' = [wdir EXCEPT ![w] = 0]
            /\ UNCHANGED <<fidx, tmp>>
       ELSE /\ pc' = [pc EXCEPT ![w] = "fetch"]
            /\ UNCHANGED locals
    /\ UNCHANGED <<tried_urls, image_md5s, image_counter, successful_downloads,
                   img_sema, files, mainv, ghost>>

\* lines 88-107: the request raises, or the bytes are not an image, or the
\* file name is built from the counter as it is now.
FetchAndName(w) ==
    /\ UNCHANGED side
    /\ UNCHANGED marks
    /\ pc[w] = "fetch"
    /\ fetchCount' = [fetchCount EXCEPT ![url[w]] = @ + 1]
    /\ \/ Finish(w)
       \/ IF ImageFormat(Content(url[w])) = "none"
          THEN Finish(w)
          ELSE /\ fidx' = [fidx EXCEPT ![w] = image_counter + 1]
               /\ pc' = [pc EXCEPT ![w] = "md5chk"]
               /\ UNCHANGED <<pool_sema, url, wdir, tmp>>
    /\ UNCHANGED <<shared, img_sema, files, mainv, writes, loaded, flushes, skipped>>

\* lines 109-112: content already in image_md5s is a duplicate.
CheckMd5(w) ==
    /\ UNCHANGED side
    /\ UNCHANGED marks
    /\ pc[w] = "md5chk"
    /\ IF Md5(Content(url[w])) \in DOMAIN image_md5s
       THEN Finish(w)
       ELSE pc' = [pc EXCEPT ![w] = "limchk"] /\ UNCHANGED <<pool_sema, locals>>
    /\ UNCHANGED <<shared, img_sema, files, mainv, ghost>>

\* lines 114-116: the limit is tested before the file is written.
CheckLimit(w) ==
    /\ UNCHANGED side
    /\ UNCHANGED marks
    /\ pc[w] = "limchk"
    /\ IF successful_downloads >= limit
       THEN Finish(w)
       ELSE pc' = [pc EXCEPT ![w] = "exists"] /\ UNCHANGED <<pool_sema, locals>>
    /\ UNCHANGED <<shared, img_sema, files, mainv, ghost>>

\* lines 118-133: an existing file of that name ends the worker, whatever
\* its content.
CheckExists(w) ==
    /\ UNCHANGED side
    /\ UNCHANGED marks
    /\ pc[w] = "exists"
    /\ IF Path(w) \in DOMAIN disk
       THEN Finish(w)
       ELSE pc' = [pc EXCEPT ![w] = "setmd5"] /\ UNCHANGED <<pool_sema, locals>>
    /\ UNCHANGED <<shared, img_sema, files, mainv, ghost>>

\* line 135: image_md5s[md5_key] = filename.
SetMd5(w) ==
    /\ UNCHANGED side
    /\ UNCHANGED marks
    /\ pc[w] = "setmd5"
    /\ image_md5s' = Put(image_md5s, Md5(Content(url[w])), FileName(w))
    /\ pc' = [pc EXCEPT ![w] = "acqimg"]
    /\ UNCHANGED <<tried_urls, in_progress, image_counter, successful_downloads,
                   semas, files, mainv, locals, ghost>>

\* download with img_sema.acquire() of line 137 not waiting for the permit.
\* C23 is expected to fail under this variant.
WriteFileNoPermit(w) ==
    /\ UNCHANGED side
    /\ UNCHANGED marks
    /\ pc[w] = "acqimg"
    /\ \/ /\ img_sema' = img_sema - 1
          /\ disk' = Put(disk, Path(w), Content(url[w]))
          /\ writes' = Append(writes, [url |-> url[w], path |-> Path(w),
                                       fresh |-> Path(w) \notin DOMAIN disk])
          /\ pc' = [pc EXCEPT ![w] = "cnt_ld"]
          /\ UNCHANGED <<pool_sema, locals>>
       \/ /\ Finish(w)
          /\ UNCHANGED <<img_sema, disk, writes>>
    /\ UNCHANGED <<shared, history, mainv, fetchCount, loaded, flushes, skipped>>

\* lines 137-142: img_sema.acquire(), then open(..., 'wb') and write; when
\* open raises the directory is as it was and both permits go back.
WriteFile(w) ==
    /\ UNCHANGED side
    /\ UNCHANGED marks
    /\ pc[w] = "acqimg"
    /\ img_sema > 0
    /\ \/ /\ img_sema' = img_sema - 1
          /\ disk' = Put(disk, Path(w), Content(url[w]))
          /\ writes' = Append(writes, [url |-> url[w], path |-> Path(w),
                                       fresh |-> Path(w) \notin DOMAIN disk])
          /\ pc' = [pc EXCEPT ![w] = "cnt_ld"]
          /\ UNCHANGED <<pool_sema, locals>>
       \/ /\ Finish(w)
          /\ UNCHANGED <<img_sema, disk, writes>>
    /\ UNCHANGED <<shared, history, mainv, fetchCount, loaded, flushes, skipped>>

\* line 145, image_counter += 1: the load and the store.
CounterLoad(w) ==
    /\ UNCHANGED side
    /\ UNCHANGED marks
    /\ pc[w] = "cnt_ld"
    /\ tmp' = [tmp EXCEPT ![w] = image_counter]
    /\ pc' = [pc EXCEPT ![w] = "cnt_st"]
    /\ UNCHANGED <<shared, semas, files, mainv, url, wdir, fidx, ghost>>

CounterStore(w) ==
    /\ UNCHANGED side
    /\ UNCHANGED marks
    /\ pc[w] = "cnt_st"
    /\ image_counter' = tmp[w] + 1
    /\ tmp' = [tmp EXCEPT ![w] = 0]
    /\ pc' = [pc EXCEPT ![w] = "suc_ld"]
    /\ UNCHANGED <<tried_urls, image_md5s, in_progress, successful_downloads,
                   semas, files, mainv, url, wdir, fidx, ghost>>

\* line 146, successful_downloads += 1: the load and the store.
SuccessLoad(w) ==
    /\ UNCHANGED side
    /\ UNCHANGED marks
    /\ pc[w] = "suc_ld"
    /\ tmp' = [tmp EXCEPT ![w] = successful_downloads]
    /\ pc' = [pc EXCEPT ![w] = "suc_st"]
    /\ UNCHANGED <<shared, semas, files, mainv, url, wdir, fidx, ghost>>

SuccessStore(w) ==
    /\ UNCHANGED side
    /\ UNCHANGED marks
    /\ pc[w] = "suc_st"
    /\ successful_downloads' = tmp[w] + 1
    /\ tmp' = [tmp EXCEPT ![w] = 0]
    /\ pc' = [pc EXCEPT ![w] = "append"]
    /\ UNCHANGED <<tried_urls, image_md5s, in_progress, image_counter,
                   semas, files, mainv, url, wdir, fidx, ghost>>

\* download with line 148 left out: the write is counted but the URL is not
\* recorded.  C9 is expected to fail under this variant.
AppendTriedOmitted(w) ==
    /\ UNCHANGED side
    /\ UNCHANGED marks
    /\ pc[w] = "append"
    /\ img_sema' = img_sema + 1
    /\ Finish(w)
    /\ UNCHANGED <<tried_urls, image_md5s, in_progress, image_counter,
                   successful_downloads, files, mainv, ghost>>

\* lines 148-154: tried_urls.append(url), then both permits go back.
AppendTried(w) ==
    /\ UNCHANGED side
    /\ UNCHANGED marks
    /\ pc[w] = "append"
    /\ tried_urls' = Append(tried_urls, url[w])
    /\ img_sema' = img_sema + 1
    /\ Finish(w)
    /\ UNCHANGED <<image_md5s, in_progress, image_counter, successful_downloads,
                   files, mainv, ghost>>

\* line 155: in_progress -= 1, and the thread ends.
DecProgress(w) ==
    /\ UNCHANGED side
    /\ UNCHANGED marks
    /\ pc[w] = "dec"
    /\ in_progress' = in_progress - 1
    /\ pc' = [pc EXCEPT ![w] = "done"]
    /\ UNCHANGED <<tried_urls, image_md5s, image_counter, successful_downloads,
                   semas, files, mainv, locals, ghost>>

download(w) ==
    \/ CheckTried(w) \/ AcquirePool(w) \/ FetchAndName(w)
    \/ CheckMd5(w) \/ CheckLimit(w) \/ CheckExists(w) \/ SetMd5(w)
    \/ WriteFile(w) \/ CounterLoad(w) \/ CounterStore(w)
    \/ SuccessLoad(w) \/ SuccessStore(w) \/ AppendTried(w)
    \/ DecProgress(w)

\* ----------------------------------------------------- specifications
\* A --search-string run, which the operator may interrupt.
InitSingle == Init /\ mode = "single"

Next ==
    \/ LoadHistory \/ Start \/ PageRequest \/ SpawnLink
    \/ Sigint \/ BackupUrls \/ BackupMd5s
    \/ \E w \in Workers : download(w)

Spec == InitSingle /\ [][Next]_vars

\* A --search-file run.
InitBatch == Init /\ mode = "batch"

NextBatch ==
    \/ LoadHistory \/ Start \/ NextKeyword \/ ResetSuccessful
    \/ PageRequest \/ SpawnLink \/ BackupUrls \/ BackupMd5s
    \/ \E w \in Workers : download(w)

SpecBatch == InitBatch /\ [][NextBatch]_vars

\* A --search-string run in the directory the complete earlier run left,
\* not interrupted, on a disk that takes every write; every thread that can
\* take a step is scheduled in the end.
InitResume ==
    /\ InitSingle
    /\ disk = Resumed.disk
    /\ history = Resumed.history

WriteFileDone(w) == WriteFile(w) /\ pc'[w] = "cnt_ld"

downloadDone(w) ==
    \/ CheckTried(w) \/ AcquirePool(w) \/ FetchAndName(w)
    \/ CheckMd5(w) \/ CheckLimit(w) \/ CheckExists(w) \/ SetMd5(w)
    \/ WriteFileDone(w) \/ CounterLoad(w) \/ CounterStore(w)
    \/ SuccessLoad(w) \/ SuccessStore(w) \/ AppendTried(w)
    \/ DecProgress(w)

NextResume ==
    \/ LoadHistory \/ Start \/ PageRequest \/ SpawnLink
    \/ \E w \in Workers : downloadDone(w)

SpecResume == InitResume /\ [][NextResume]_vars /\ WF_vars(NextResume)

\* A --search-string run in an empty directory, not interrupted, in which
\* every download thread that can take a step takes one in the end: each
\* request and each write returns or raises, and a thread blocked in
\* acquire() goes on once the permit is free for good.
InitFair ==
    /\ InitSingle
    /\ disk = NoDisk
    /\ history = NoHistory

NextFair ==
    \/ LoadHistory \/ Start \/ PageRequest \/ SpawnLink
    \/ \E w \in Workers : download(w)

SpecFair ==
    /\ InitFair
    /\ [][NextFair]_vars
    /\ WF_vars(LoadHistory \/ Start \/ PageRequest \/ SpawnLink)
    /\ \A w \in Workers : WF_vars(download(w))

\* The program run again in the same output directory with the same
\* command line, once the process of the run before has ended: the module
\* globals of lines 40-44 and the semaphores are new, the directory and
\* download_history.pickle are as that run left them.
Rerun ==
    /\ run < MaxRuns
    /\ mpc \in {"done", "exited", "crashed"}
    /\ AllDone
    /\ run' = run + 1
    /\ tried_urls' = << >>
    /\ image_md5s' = << >>
    /\ in_progress' = 0
    /\ image_counter' = 0
    /\ successful_downloads' = 0
    /\ pool_sema' = threads
    /\ img_sema' = 1
    /\ mpc' = "load"
    /\ sig' = FALSE
    /\ kw' = 0
    /\ page' = << >>
    /\ idx' = 1
    /\ last_link' = 0
    /\ nspawned' = 0
    /\ pc' = [w \in Workers |-> "idle"]
    /\ url' = [w \in Workers |-> 0]
    /\ wdir' = [w \in Workers |-> 0]
    /\ fidx' = [w \in Workers |-> 0]
    /\ tmp' = [w \in Workers |-> 0]
    /\ fetchCount' = [u \in Urls |-> 0]
    /\ writes' = << >>
    /\ loaded' = << >>
    /\ flushes' = 0
    /\ skipped' = {}
    /\ ended' = "no"
    /\ ckpt' = -1
    /\ repeated' = FALSE
    /\ failed' = FALSE
    /\ UNCHANGED <<files, mode, limit, threads, counts, cleanv, saved>>

\* --search-string runs, which the operator may interrupt, one after the
\* other in one output directory; the last run is followed to the end of
\* load_download_history.
NextRestart ==
    \/ run < MaxRuns /\ Next
    \/ Rerun
    \/ run = MaxRuns /\ LoadHistory

SpecRestart == InitSingle /\ [][NextRestart]_vars

\* ------------------------------------------- the throttle, by counting
\* The same code with the download threads counted, for runs in which more
\* threads are alive than MAX_CONCURRENT_DOWNLOADS: every fetch fails, so
\* nothing is saved and tried_urls stays empty.
InitThrottle ==
    /\ InitDownloader
    /\ mode = "single"
    /\ disk = NoDisk
    /\ history = NoHistory
    /\ threads \in {MaxThreads, DEFAULT_THREADS}
    /\ pool_sema = threads
    /\ CleanupOff

\* Pages of one link repeated, as many links as threads may still start.
UniformPages ==
    {[i \in 1..n |-> u] : n \in 1..(MaxStarted - nspawned), u \in {1, 7}}

\* One turn of the while loop, lines 173-195 and 208-213.
ThrottledPage ==
    /\ mpc = "loop"
    /\ IF in_progress > MAX_CONCURRENT_DOWNLOADS
       THEN UNCHANGED <<mpc, page, idx, last_link, ended, failed>>
       ELSE \/ /\ mpc' = "done"
               /\ last_link' = 0
               /\ ended' = "page"
               /\ failed' = TRUE
               /\ UNCHANGED <<page, idx>>
            \/ /\ mpc' = "done"
               /\ last_link' = 0
               /\ ended' = "page"
               /\ UNCHANGED <<page, idx, failed>>
            \/ \E p \in UniformPages :
                 IF p[Len(p)] = last_link
                 THEN /\ mpc' = "done"
                      /\ last_link' = 0
                      /\ ended' = "page"
                      /\ UNCHANGED <<page, idx, failed>>
                 ELSE /\ mpc' = "spawn"
                      /\ page' = p
                      /\ idx' = 1
                      /\ UNCHANGED <<last_link, ended, failed>>
    /\ UNCHANGED <<shared, semas, files, mode, limit, threads, sig, kw, nspawned,
                   pc, locals, ghost, ckpt, repeated, side>>

\* One turn of the for loop, lines 197-206: thread.start().
ThreadStart ==
    /\ mpc = "spawn"
    /\ IF idx > Len(page)
       THEN /\ last_link' = page[Len(page)]
            /\ mpc' = "loop"
            /\ page' = << >>
            /\ idx' = 1
            /\ UNCHANGED <<nspawned, waiting, doomed, ended>>
       ELSE IF successful_downloads >= limit
            THEN /\ mpc' = "done"
                 /\ last_link' = 0
                 /\ page' = << >>
                 /\ idx' = 1
                 /\ ended' = "limit"
                 /\ UNCHANGED <<nspawned, waiting, doomed>>
            ELSE /\ nspawned' = nspawned + 1
                 /\ IF Malformed(page[idx])
                    THEN doomed' = doomed + 1 /\ UNCHANGED waiting
                    ELSE waiting' = waiting + 1 /\ UNCHANGED doomed
                 /\ idx' = idx + 1
                 /\ UNCHANGED <<mpc, last_link, page, ended>>
    /\ UNCHANGED <<shared, semas, files, mode, limit, threads, sig, kw,
                   pc, locals, ghost, ckpt, repeated, failed, leaving, dead, cleanv, runs>>

\* download, lines 60-64: the URL is not in tried_urls, a permit is taken
\* and in_progress += 1.
ThreadEnter ==
    /\ waiting > 0
    /\ pool_sema > 0
    /\ waiting' = waiting - 1
    /\ pool_sema' = pool_sema - 1
    /\ in_progress' = in_progress + 1
    /\ UNCHANGED <<tried_urls, image_md5s, image_counter, successful_downloads,
                   img_sema, files, mainv, pc, locals, ghost, marks, leaving,
                   doomed, dead, cleanv, runs>>

\* download, lines 60-68: a permit is taken, in_progress += 1, and urlsplit
\* raises before the try of line 88: the thread ends with the permit.
ThreadDies ==
    /\ doomed > 0
    /\ pool_sema > 0
    /\ doomed' = doomed - 1
    /\ dead' = dead + 1
    /\ pool_sema' = pool_sema - 1
    /\ in_progress' = in_progress + 1
    /\ UNCHANGED <<tried_urls, image_md5s, image_counter, successful_downloads,
                   img_sema, files, mainv, pc, locals, ghost, marks, waiting,
                   leaving, cleanv, runs>>

\* download, lines 85-153: the request raises and the permit goes back.
ThreadRelease ==
    /\ pool_sema + dead < threads
    /\ pool_sema' = pool_sema + 1
    /\ leaving' = leaving + 1
    /\ UNCHANGED <<shared, img_sema, files, mainv, pc, locals, ghost, marks,
                   waiting, doomed, dead, cleanv, runs>>

\* download, line 155: in_progress -= 1.
ThreadLeave ==
    /\ leaving > 0
    /\ leaving' = leaving - 1
    /\ in_progress' = in_progress - 1
    /\ UNCHANGED <<tried_urls, image_md5s, image_counter, successful_downloads,
                   semas, files, mainv, pc, locals, ghost, marks, waiting,
                   doomed, dead, cleanv, runs>>

NextThrottle ==
    \/ LoadHistory \/ Start \/ ThrottledPage \/ ThreadStart
    \/ ThreadEnter \/ ThreadDies \/ ThreadRelease \/ ThreadLeave

SpecThrottle == InitThrottle /\ [][NextThrottle]_vars

\* The same run in which the threads are scheduled: as long as the main
\* thread or a download thread can take a step that changes the state, one
\* of them takes a step.  No step of a download thread is undone, so every
\* thread that can go on does go on in the end.
SpecThrottleFair ==
    /\ InitThrottle
    /\ [][NextThrottle]_vars
    /\ WF_vars(NextThrottle)

\* ------------------------------ flask_app.py: cleanup_previous_search
\* Config, lines 32-44.  A path is <<directory, <<stem, suffix>>>>.
IMAGES_DIR == "static/Images"
CSV_DIR == "csv_files"
TSV_DIR == "tsv_files"
IMAGE_EXTENSIONS == {".jpg", ".jpeg", ".png", ".gif", ".bmp", ".webp"}
CSV_EXTENSION == ".csv"
TSV_EXTENSION == ".tsv"
KB_FILE == <<".", <<"KB-CSK-SNIFFER", ".csv">>>>
ERROR_FILE == <<".", <<"error_set", ".tsv">>>>

\* str.lower on the suffixes of the model.
Lower(sfx) == CASE sfx = ".PNG" -> ".png" [] sfx = ".JPG" -> ".jpg" [] OTHER -> sfx

\* What an earlier search may have left: images, a file that is no image, a
\* sub-directory and a symbolic link to a directory under static/Images, a
\* CSV file, a TSV file and error_set.tsv.
Leftovers ==
    {<<IMAGES_DIR, <<"test1", ".jpg">>>>, <<IMAGES_DIR, <<"test2", ".PNG">>>>,
     <<IMAGES_DIR, <<"notes", ".txt">>>>, <<IMAGES_DIR, <<"cats", "">>>>,
     <<IMAGES_DIR, <<"latest", "">>>>,
     <<CSV_DIR, <<"test1", ".csv">>>>, <<TSV_DIR, <<"collocations", ".tsv">>>>,
     ERROR_FILE}
KindOf(path) ==
    CASE path[2][1] = "cats" -> "dir" [] path[2][1] = "latest" -> "link"
      [] OTHER -> "file"

\* Path.is_file and Path.is_dir follow symbolic links.
IsFile(path) == fs[path].kind = "file"
IsDir(path) == fs[path].kind \in {"dir", "link"}
Remove(f, k) == [x \in DOMAIN f \ {k} |-> f[x]]

downloader == <<shared, semas, files, mainv, pc, locals, ghost, marks, counts, runs>>

\* cleanup_previous_search is called with any of the leftovers present and
\* the knowledge base in the working directory.
InitCleanup ==
    /\ InitDownloader
    /\ mode = "single"
    /\ disk = NoDisk
    /\ history = NoHistory
    /\ threads = MaxThreads
    /\ pool_sema = threads
    /\ \E S \in SUBSET Leftovers, d \in 1..2 :
          fs = [path \in S \cup {KB_FILE} |->
                   IF path = KB_FILE THEN [kind |-> "file", data |-> d]
                   ELSE [kind |-> KindOf(path), data |-> 0]]
    /\ fs0 = fs
    /\ cpc = "images"
    /\ cache_buster = 1

\* The entries of static/Images the loop of lines 81-87 acts on.
ImagesToClean ==
    {path \in DOMAIN fs :
        /\ path[1] = IMAGES_DIR
        /\ \/ IsFile(path) /\ Lower(path[2][2]) \in IMAGE_EXTENSIONS
           \/ IsDir(path)}

\* lines 80-87, one entry of iterdir(): unlink or shutil.rmtree removes it,
\* or raises (rmtree always does on a symbolic link) and the handler of
\* lines 113-115 ends the function.
CleanImages ==
    /\ cpc = "images"
    /\ IF ImagesToClean = {}
       THEN cpc' = "csv" /\ UNCHANGED fs
       ELSE \E path \in ImagesToClean :
              \/ /\ fs[path].kind # "link"
                 /\ fs' = Remove(fs, path)
                 /\ UNCHANGED cpc
              \/ /\ cpc' = "returned"
                 /\ UNCHANGED fs
    /\ UNCHANGED <<downloader, fs0, cache_buster>>

\* The CSV clean-up globbing in the working directory as well.  C16 is
\* expected to fail under this variant.
CleanCsvEverywhere ==
    /\ cpc = "csv"
    /\ LET found == {path \in DOMAIN fs : path[2][2] = CSV_EXTENSION}
       IN IF found = {}
          THEN cpc' = "tsv" /\ UNCHANGED fs
          ELSE \E path \in found :
                 \/ fs' = Remove(fs, path) /\ UNCHANGED cpc
                 \/ cpc' = "returned" /\ UNCHANGED fs
    /\ UNCHANGED <<downloader, fs0, cache_buster>>

\* lines 90-93: CSV_DIR.glob("*.csv"), each file unlinked.
CleanCsv ==
    /\ cpc = "csv"
    /\ LET found == {path \in DOMAIN fs :
                        path[1] = CSV_DIR /\ path[2][2] = CSV_EXTENSION}
       IN IF found = {}
          THEN cpc' = "tsv" /\ UNCHANGED fs
          ELSE \E path \in found :
                 \/ fs' = Remove(fs, path) /\ UNCHANGED cpc
                 \/ cpc' = "returned" /\ UNCHANGED fs
    /\ UNCHANGED <<downloader, fs0, cache_buster>>

\* lines 96-99: TSV_DIR.glob("*.tsv"), each file unlinked.
CleanTsv ==
    /\ cpc = "tsv"
    /\ LET found == {path \in DOMAIN fs :
                        path[1] = TSV_DIR /\ path[2][2] = TSV_EXTENSION}
       IN IF found = {}
          THEN cpc' = "error" /\ UNCHANGED fs
          ELSE \E path \in found :
                 \/ fs' = Remove(fs, path) /\ UNCHANGED cpc
                 \/ cpc' = "returned" /\ UNCHANGED fs
    /\ UNCHANGED <<downloader, fs0, cache_buster>>

\* lines 102-104: error_set.tsv is unlinked when it exists.
CleanError ==
    /\ cpc = "error"
    /\ IF ERROR_FILE \in DOMAIN fs
       THEN \/ fs' = Remove(fs, ERROR_FILE) /\ cpc' = "session"
            \/ cpc' = "returned" /\ UNCHANGED fs
       ELSE cpc' = "session" /\ UNCHANGED fs
    /\ UNCHANGED <<downloader, fs0, cache_buster>>

\* lines 107-111: the cache buster goes up by one, or session raises outside
\* a request; the function returns either way.
BumpCacheBuster ==
    /\ cpc = "session"
    /\ \/ cache_buster' = cache_buster + 1
       \/ UNCHANGED cache_buster
    /\ cpc' = "returned"
    /\ UNCHANGED <<downloader, fs, fs0>>

NextCleanup ==
    \/ CleanImages \/ CleanCsv \/ CleanTsv \/ CleanError \/ BumpCacheBuster

SpecCleanup == InitCleanup /\ [][NextCleanup]_vars

\* ------------------------------------------------------------- claims
WriteIndex(i) == writes[i].path[2][1]
WriteMd5(i) == Md5(Content(writes[i].url))
WrittenUrls == [i \in 1..Len(writes) |-> writes[i].url]
AddedUrls == SubSeq(tried_urls, Len(loaded) + 1, Len(tried_urls))
FetchTotal ==
    fetchCount[1] + fetchCount[2] + fetchCount[3] + fetchCount[4]
      + fetchCount[5] + fetchCount[6] + fetchCount[7]

\* C1: in a keyword run with limit L the successful downloads, files
\* written and counted in successful_downloads, never exceed L.
C1_SuccessesWithinLimit ==
    successful_downloads <= limit

\* C2: the files written in one keyword run carry pairwise distinct
\* indices, and the indices are exactly 1..k for k successful writes.
C2_IndicesContiguous ==
    /\ \A i, j \in 1..Len(writes) : i # j => WriteIndex(i) # WriteIndex(j)
    /\ {WriteIndex(i) : i \in 1..Len(writes)} = 1..Len(writes)

\* C3: no two files saved in one run have the same fingerprint: of two
\* workers with byte-identical content only the first saves a file.
C3_NoDuplicateContent ==
    /\ \A i, j \in 1..Len(writes) :
          writes[i].url # writes[j].url => WriteMd5(i) # WriteMd5(j)
    /\ \A m, n \in {writes[i].path : i \in 1..Len(writes)} :
          m # n => Md5(disk[m]) # Md5(disk[n])

\* C4: no fetch is attempted for a URL of the attempted-URL list that
\* load_download_history loaded.
C4_NoFetchOfLoadedUrl ==
    \A u \in Urls : InSeq(u, loaded) => fetchCount[u] = 0

\* C4 witness: the loaded ledger names URL 1, a page yielded URL 1 and the
\* worker skipped it, and another URL was fetched.
C4_Witness ==
    /\ loaded = <<1>>
    /\ 1 \in skipped
    /\ fetchCount[3] = 1
    /\ AllDone

\* C5: a worker never writes to a file name that already exists in the
\* output directory.
C5_NeverOverwrites ==
    \A i \in 1..Len(writes) : writes[i].fresh

\* C6: when SIGINT has run backup_history and exit(0), every file of the
\* run has its URL and its fingerprint in the checkpointed ledger, and no
\* worker completes a write after the checkpoint.
C6_CheckpointCoversWrites ==
    (mpc = "exited" /\ ckpt >= 0) =>
        /\ Len(writes) = ckpt
        /\ \A i \in 1..Len(writes) :
              /\ InSeq(writes[i].url, history.tried)
              /\ WriteMd5(i) \in DOMAIN history.md5s

\* C7: a keyword run that ends because the limit is reached has created
\* exactly L Asset Records once its workers have finished.
C7_ExactlyLimit ==
    (mpc = "done" /\ ended = "limit" /\ AllDone) => Len(writes) = limit

\* C8: at most one fetch is attempted for a URL, however often it is
\* yielded.
C8_OneFetchPerUrl ==
    \A u \in Urls : fetchCount[u] <= 1

\* C9: once all workers have finished, the URLs added to tried_urls during
\* the run are the URLs of the files written, one entry per write.
C9_TriedAreWritten ==
    AllDone => AddedUrls = WrittenUrls

\* C9 witness: both workers fetched, one wrote its file and the other was
\* discarded.
C9_Witness ==
    /\ AllDone
    /\ nspawned = 2
    /\ FetchTotal = 2
    /\ Len(writes) = 1
    /\ Len(tried_urls) = 1

\* C10: every keyword run ends with a call of backup_history.
C10_RunEndsWithFlush ==
    mpc = "done" => flushes >= 1

\* C11: when pagination for a keyword starts, before any page of it has been
\* handled, in_progress, successful_downloads and image_counter are zero,
\* and no worker of an earlier keyword changes them.
C11_CountersZeroAtKeywordStart ==
    (mpc = "loop" /\ last_link = 0) =>
        /\ in_progress = 0
        /\ successful_downloads = 0
        /\ image_counter = 0

\* C12: once a page has ended in the link the page before it ended in, no
\* worker is started for that page or later.
C12_NoSpawnAfterRepeatedLink ==
    [][repeated' => nspawned' = nspawned]_vars

\* C12 witness: a first page started a worker, the next page ended in the
\* same link and the run is over.
C12_Witness ==
    /\ repeated
    /\ nspawned = 1
    /\ mpc = "done"
    /\ ended = "page"

\* A worker holds the bytes of a JPEG image whose fingerprint the ledger
\* does not know.
NewImageFetched ==
    \E w \in Workers :
        /\ pc[w] = "md5chk"
        /\ ImageFormat(Content(url[w])) = "jpeg"
        /\ Md5(Content(url[w])) \notin DOMAIN image_md5s

\* C13: a run resumed in the directory of an earlier run, with its ledger
\* loaded, that is yielded L new valid images eventually saves L new files.
C13_ResumedRunSaves ==
    NewImageFetched ~> (Len(writes) >= limit)

\* C14: a file saved as .jpg holds JPEG content and a file saved as .png
\* holds PNG content.
C14_ExtensionMatchesContent ==
    \A i \in 1..Len(writes) :
        /\ writes[i].path[2][2] = ".jpg" =>
               ImageFormat(Content(writes[i].url)) = "jpeg"
        /\ writes[i].path[2][2] = ".png" =>
               ImageFormat(Content(writes[i].url)) = "png"

\* The fingerprints load_download_history put into image_md5s: those of the
\* complete ledger, the only one that loads.
LoadedMd5s == IF loaded = << >> THEN {} ELSE DOMAIN Resumed.history.md5s

\* C15: when cleanup_previous_search has returned, static/Images holds no
\* image file, csv_files no .csv file, tsv_files no .tsv file, and
\* error_set.tsv does not exist.
C15_CleanupRemovesAll ==
    cpc = "returned" =>
        /\ \A path \in DOMAIN fs :
              /\ (path[1] = IMAGES_DIR /\ IsFile(path)) =>
                     Lower(path[2][2]) \notin IMAGE_EXTENSIONS
              /\ path[1] = CSV_DIR => path[2][2] # CSV_EXTENSION
              /\ path[1] = TSV_DIR => path[2][2] # TSV_EXTENSION
        /\ ERROR_FILE \notin DOMAIN fs

\* C16: cleanup_previous_search leaves KB-CSK-SNIFFER.csv in place and
\* unchanged.
C16_KnowledgeBaseKept ==
    cpc # "off" => (KB_FILE \in DOMAIN fs /\ fs[KB_FILE] = fs0[KB_FILE])

\* C16 witness: the function has returned after removing the CSV file of
\* csv_files, and the knowledge base, itself a .csv file, is there.
C16_Witness ==
    /\ cpc = "returned"
    /\ <<CSV_DIR, <<"test1", ".csv">>>> \in DOMAIN fs0
    /\ <<CSV_DIR, <<"test1", ".csv">>>> \notin DOMAIN fs
    /\ cache_buster = 2
    /\ fs[KB_FILE].data = 2

\* C17: the two counters, tried_urls and image_md5s change only for a
\* worker whose write completed: when all workers have finished, every
\* fingerprint and URL added and every count belongs to a write.
C17_UpdatesOnlyAfterWrite ==
    AllDone =>
        /\ (DOMAIN image_md5s) \ LoadedMd5s \subseteq
               {WriteMd5(i) : i \in 1..Len(writes)}
        /\ AddedUrls = WrittenUrls
        /\ image_counter = Len(writes)
        /\ successful_downloads = Len(writes)

\* The positions between a worker's first update (line 135) and its last
\* (line 148), and the positions whose next step reads or writes tried_urls,
\* image_md5s, image_counter or successful_downloads.
UpdateWindow == {"acqimg", "cnt_ld", "cnt_st", "suc_ld", "suc_st", "append"}
SharedAccess ==
    {"start", "fetch", "md5chk", "limchk", "setmd5",
     "cnt_ld", "cnt_st", "suc_ld", "suc_st", "append"}

\* C18: while a worker is between its first and its last update, no other
\* worker reads or writes any of the four.
C18_UpdatesAreAtomic ==
    [][\A w, v \in Workers :
          (w # v /\ pc[w] \in UpdateWindow /\ pc[v] \in SharedAccess)
              => pc'[v] = pc[v]]_vars

\* C19: after pagination has ended, the count is reported, the ledger flushed
\* and the next keyword started only when every worker has finished.
C19_DrainsBeforeReport ==
    (/\ mpc \in {"done", "backup", "backup_md5s", "next_kw", "reset_sd"}
     /\ ended \in {"page", "limit"}) => AllDone

\* C20: no download thread is started while in_progress is above
\* MAX_CONCURRENT_DOWNLOADS.
C20_NoStartAboveMark ==
    [][nspawned' > nspawned => in_progress <= MAX_CONCURRENT_DOWNLOADS]_vars

\* Download threads started (line 203) that have not yet returned from
\* download: waiting for a fetch permit, holding one, or past the release
\* of line 152 and before the end of line 155.
Alive == waiting + doomed + (threads - pool_sema - dead) + leaving

\* C21: the number of download threads started and not yet finished stays
\* within a constant that does not depend on how many links the result pages
\* carry; the constant tried is the high-water mark plus the one thread whose
\* start the test of line 176 let through.
C21_AliveBounded == Alive <= MAX_CONCURRENT_DOWNLOADS + 1

\* A worker between pool_sema.acquire() of line 63 and the release of
\* line 152.
HoldsPermit(w) ==
    pc[w] \in {"fetch", "md5chk", "limchk", "exists", "setmd5", "acqimg",
               "cnt_ld", "cnt_st", "suc_ld", "suc_st", "append"}
PermitHolders == {w \in Workers : HoldsPermit(w)}

\* C22: the workers holding a fetch permit are never more than --threads,
\* the permits out never more than --threads, and a permit goes back only by
\* the step of a worker that holds one.
C22_FetchPermits ==
    /\ [](/\ pool_sema \in 0..threads
          /\ Cardinality(PermitHolders) <= threads - pool_sema)
    /\ [][pool_sema' > pool_sema =>
            /\ pool_sema' = pool_sema + 1
            /\ \E w \in Workers : HoldsPermit(w) /\ pc'[w] = "dec"]_vars

\* Every permit is out and a further worker waits for one.
C22_Witness ==
    /\ pool_sema = 0
    /\ Cardinality(PermitHolders) = threads
    /\ \E w \in Workers : pc[w] = "acquire"

\* A worker between img_sema.acquire() of line 137 and the release of
\* line 154.
HoldsWritePermit(w) ==
    pc[w] \in {"cnt_ld", "cnt_st", "suc_ld", "suc_st", "append"}
Writers == {w \in Workers : HoldsWritePermit(w)}

\* C23: at most one worker is between taking and giving back img_sema; a
\* file is written only in the step of a worker that takes the free write
\* permit and keeps its fetch permit; the write permit goes back only by a
\* worker that holds it, after its write.
C23_OneWriter ==
    /\ [](/\ img_sema \in 0..1
          /\ Cardinality(Writers) = 1 - img_sema)
    /\ [][(Len(writes') > Len(writes)) =>
            /\ img_sema = 1
            /\ img_sema' = 0
            /\ \E w \in Workers :
                  /\ HoldsPermit(w) /\ HoldsPermit(w)'
                  /\ ~HoldsWritePermit(w) /\ HoldsWritePermit(w)'
                  /\ writes'[Len(writes')].url = url[w]]_vars
    /\ [][(img_sema' > img_sema) =>
            \E w \in Workers :
               /\ HoldsWritePermit(w) /\ ~HoldsWritePermit(w)'
               /\ \E i \in 1..Len(writes) : writes[i].url = url[w]]_vars

\* One worker holds the write permit and another one, holding a fetch
\* permit, waits for it.
C23_Witness ==
    /\ img_sema = 0
    /\ \E w, v \in Workers :
          /\ HoldsWritePermit(w)
          /\ pc[v] = "acqimg"

\* C24: whatever step of a worker failed after it took a fetch permit, once
\* every worker has ended every permit is back, each given back once, and
\* the in-flight count is back at 0.
C24_FailureGivesBack ==
    AllDone => (pool_sema = threads /\ img_sema = 1 /\ in_progress = 0)

\* C25: once the workers have ended, every URL that was requested is in
\* tried_urls, whether its bytes were saved, discarded or never arrived.
C25_AttemptedAreTried ==
    AllDone => \A u \in Urls : fetchCount[u] > 0 => InSeq(u, tried_urls)

\* C26: every step that changes download_history.pickle leaves a complete
\* ledger in it, so that the file holds the complete ledger stored before or
\* the complete new one at every moment.
C26_CheckpointAtomic ==
    [][history' # history =>
         /\ history'.st = "full"
         /\ history'.tried = tried_urls
         /\ history'.md5s = image_md5s]_vars

\* C27: once a page request of a keyword has raised, the while loop is
\* over (no page is asked for again, no download thread started) and the
\* session is where fetch_images_from_keyword returns to: at the end of a
\* --search-string run, and in a --search-file run in backup_history and
\* then at the next keyword.
C27_FailedPageEndsKeyword ==
    /\ [](failed =>
            /\ mpc \in (IF mode = "batch"
                         THEN {"backup", "backup_md5s", "next_kw"}
                         ELSE {"done"})
            /\ (mpc = "next_kw" => flushes = kw))
    /\ [][(failed \/ failed') => nspawned' = nspawned]_vars
    /\ [][(failed /\ ~failed') =>
            \/ mpc' = "reset_sd" /\ kw' = kw + 1
            \/ mpc' = "done" /\ kw = NumKeywords]_vars

\* The second page request of the first keyword raised, after a download
\* thread was started; backup_history has run and the next keyword is due.
C27_Witness ==
    /\ failed
    /\ mode = "batch"
    /\ mpc = "next_kw"
    /\ kw = 1
    /\ nspawned = 1
    /\ flushes = 1

\* C28: the step of a worker whose URL is in tried_urls at the test of
\* line 60 ends the worker, takes no permit and leaves in_progress,
\* image_counter, successful_downloads, tried_urls, image_md5s and the
\* output directory as they were.
C28_SkipChangesNothing ==
    [][\A w \in Workers :
          (pc[w] = "start" /\ InSeq(url[w], tried_urls) /\ pc'[w] # "start") =>
              /\ pc'[w] = "done"
              /\ UNCHANGED <<tried_urls, image_md5s, in_progress, image_counter,
                             successful_downloads, pool_sema, img_sema, disk>>]_vars

\* A worker given a URL of the loaded ledger has returned at line 62 while
\* the other worker holds the only permit taken.
C28_Witness ==
    /\ skipped # {}
    /\ \A u \in skipped : InSeq(u, tried_urls)
    /\ \E w, v \in Workers : pc[w] = "done" /\ pc[v] = "fetch"
    /\ pool_sema = threads - 1
    /\ in_progress = 1

\* C29: in_progress is at least 0 and at most --threads, and it is 0 when
\* no download thread is running.
C29_InProgressWithinThreads ==
    /\ in_progress \in 0..threads
    /\ AllDone => in_progress = 0

\* C30: once a download thread has been started, the run comes to a state
\* in which every started thread has ended and every permit is back.
C30_WorkersFinish ==
    (nspawned > 0) ~> (AllDone /\ pool_sema = threads /\ img_sema = 1)

\* C31: the result pages come to an end and every download thread that was
\* started ends, so the while loop of fetch_images_from_keyword, once
\* entered, is left: the throttle test of line 176 does not keep it going
\* round for ever.
C31_FetchReturns == (mpc = "loop") ~> (mpc = "done")

\* C32: when no download thread is running, every fingerprint added to
\* image_md5s in this run is mapped to the name of a file that this run
\* wrote, that is in the output directory and whose bytes have that
\* fingerprint.
C32_Md5sNameWrittenFiles ==
    AllDone =>
        \A k \in (DOMAIN image_md5s) \ LoadedMd5s :
            \E i \in 1..Len(writes) :
                /\ writes[i].path[2] = image_md5s[k]
                /\ writes[i].path \in DOMAIN disk
                /\ Md5(disk[writes[i].path]) = k

\* C33: when the last backup_history of a run wrote the whole ledger with no
\* download thread running, load_download_history of the next run loads
\* the file and leaves in tried_urls and image_md5s what was in them at that
\* backup.
C33_RoundTrip ==
    [][(run = MaxRuns /\ mpc = "load" /\ mpc' # "load" /\ saved.st = "whole") =>
          /\ mpc' = "start"
          /\ tried_urls' = saved.tried
          /\ image_md5s' = saved.md5s]_vars

\* The first run saved URL 3, was interrupted when its workers had ended and
\* wrote the ledger; the second run has loaded it.
C33_Witness ==
    /\ run = MaxRuns
    /\ mpc = "start"
    /\ saved.st = "whole"
    /\ InSeq(3, saved.tried)
    /\ Md5(Content(3)) \in DOMAIN saved.md5s
    /\ tried_urls = saved.tried
    /\ image_md5s = saved.md5s

\* C34: load_download_history always hands over to the run, and when
\* download_history.pickle is missing or is not a complete ledger the run
\* starts with an empty tried_urls and an empty image_md5s.
C34_LoadNeverAborts ==
    [][(mpc = "load" /\ mpc' # "load" /\ ~sig') =>
          /\ mpc' = "start"
          /\ history.st # "full" =>
                 (tried_urls' = << >> /\ image_md5s' = << >>)]_vars
====
